---- MODULE Spec2Model ----
\* Model of the Amadeus chat client (tests/functional_tests/test_basic_usage_scenarios.py),
\* its deterministic stand-in DummyAmadeus (tests/unit_tests/test_okabe_message_flow.py)
\* and the persona loader (fractal_amadeus/core/__init__.py).
\*
\* Python strings are sequences of one-character strings, so that length,
\* concatenation and substring containment are computed, not assumed.
\* Optional[T] is a sequence of length at most one: None == <<>>, a value v is <<v>>.
EXTENDS Integers, Sequences, FiniteSets, TLC

VARIABLES
    file,          \* docs/latest_preprompt.md: None (missing) or Some(content)
    amadeus,       \* the five latest_* fields of the one Amadeus instance
    dummy,         \* the two fields of the one DummyAmadeus instance
    wire,          \* requests put on the network by the call just made
    result,        \* the call just made on Amadeus or on a loader, and its outcome
    dummy_result,  \* the call just made on DummyAmadeus, and its outcome
    test_returned  \* history: some amadeus.test call has returned normally

vars == <<file, amadeus, dummy, wire, result, dummy_result, test_returned>>

----------------------------------------------------------------------------
\* Optional values

None == <<>>

Some(v) == <<v>>

IsNone(o) == o = <<>>

Val(o) == o[1]

----------------------------------------------------------------------------
\* Bounds of the model

\* longest expected_elements list handed to raise_for_some_elements_not_returned
MaxExpected == 2

----------------------------------------------------------------------------
\* Strings

NL == "\n"

KURISU == <<"K", "u", "r", "i", "s", "u">>

\* DummyAmadeus.FIXED_RESPONSE, also what the stub transport returns
FIXED_RESPONSE ==
    <<"D","o","e","s"," ","t","h","i","s"," ","h","e","l","p"," ",
      "p","r","o","v","i","d","e"," ","s","o","m","e"," ",
      "h","e","a","l","t","h","i","e","r"," ","m","e","a","l"," ",
      "i","d","e","a","s">>

\* Python's `elem in text` for two str values: exact, case-sensitive substring
\* containment; the empty string is contained in every string.
Contains(text, elem) ==
    \E off \in 0..(Len(text) - Len(elem)) :
        SubSeq(text, off + 1, off + Len(elem)) = elem

\* the comprehension with the operands of `in` exchanged
missing_elements_swapped(expected_elements, content) ==
    SelectSeq(expected_elements, LAMBDA elem : ~Contains(elem, content))

\* The case-sensitive list comprehension of raise_for_some_elements_not_returned:
\* [elem for elem in expected_elements if elem not in content]
missing_elements(expected_elements, content) ==
    SelectSeq(expected_elements, LAMBDA elem : ~Contains(content, elem))

----------------------------------------------------------------------------
\* Outcomes of a call: a normal return or the exception that leaves the call

Return(v) == [kind |-> "return", contract |-> "", msg |-> "", value |-> v]

Raise(kind, msg) == [kind |-> kind, contract |-> "", msg |-> msg, value |-> <<>>]

\* icontract.ViolationError of a require ("require") or an ensure ("ensure")
Violation(contract, msg) ==
    [kind |-> "ViolationError", contract |-> contract, msg |-> msg, value |-> <<>>]

\* the failed `assert missing_elements == []`, carrying the list it prints
AssertionError(missing) ==
    [kind |-> "AssertionError", contract |-> "", msg |-> "Missing elements", value |-> missing]

NoOutcome == [kind |-> "none", contract |-> "", msg |-> "", value |-> <<>>]

----------------------------------------------------------------------------
\* The persona file and its two loaders

MinPrepromptLen == 10

MaxPrepromptLen == 100000

\* fractal_amadeus.core.load_preprompt: open() raises FileNotFoundError for a
\* missing file; the two ensure contracts guard every normal return.
load_preprompt(f) ==
    IF IsNone(f)
    THEN Raise("FileNotFoundError", "docs/latest_preprompt.md")
    ELSE LET content == Val(f) IN
         IF ~(MinPrepromptLen <= Len(content) /\ Len(content) <= MaxPrepromptLen)
         THEN Violation("ensure", "Preprompt length must be between 10 and 100,000 characters")
         ELSE IF ~Contains(content, KURISU)
         THEN Violation("ensure", "Preprompt must contain Kurisu character information")
         ELSE Return(Some(content))

\* load_preprompt of test_basic_usage_scenarios.py, the one Amadeus.test calls:
\* FileNotFoundError is caught and turned into sys.exit(1); the ensure
\* contracts ask for a non-empty result that contains "Kurisu".
scenarios_load_preprompt(f) ==
    IF IsNone(f)
    THEN Raise("SystemExit", "1")
    ELSE LET content == Val(f) IN
         IF ~(Len(content) > 0)
         THEN Violation("ensure", "Preprompt must not be empty")
         ELSE IF ~Contains(content, KURISU)
         THEN Violation("ensure", "Preprompt must contain Kurisu character information")
         ELSE Return(Some(content))

----------------------------------------------------------------------------
\* The request

API_URL == "https://api.anthropic.com/v1/messages"

\* x-api-key holds the value of the CLAUDE_API_KEY environment variable
HEADERS ==
    ("Content-Type" :> "application/json")
    @@ ("anthropic-version" :> "2023-06-01")
    @@ ("x-api-key" :> "CLAUDE_API_KEY")

\* f"{preprompt}\n\n{text}"
MessageContent(preprompt, text) == preprompt \o <<NL, NL>> \o text

\* the payload dict of Amadeus.test
Payload(preprompt, text) ==
    [model          |-> "claude-3-haiku-20240307",
     temperature    |-> 0,
     top_p          |-> "0.9",
     stop_sequences |-> <<"User:">>,
     max_tokens     |-> 1000,
     messages       |-> <<[role |-> "user", content |-> MessageContent(preprompt, text)]>>]

----------------------------------------------------------------------------
\* What the endpoint can answer. `raises` is a transport failure inside
\* requests.post (no response at all); otherwise status_code and the body.
\* A body is JSON or not, has a "content" key or not, and each content block
\* has a "text" key or not.

TextBlock(text) == [type |-> "text", has_text |-> TRUE, text |-> text]

ToolBlock == [type |-> "tool_use", has_text |-> FALSE, text |-> <<>>]

Body(id, valid_json, has_content, content) ==
    [id |-> id, valid_json |-> valid_json, has_content |-> has_content, content |-> content]

NoBody == Body("", FALSE, FALSE, <<>>)

Response(raises, status_code, body) ==
    [raises |-> raises, status_code |-> status_code, body |-> body]

\* "Kurisu: [ok]"
KURISU_REPLY == KURISU \o <<":", " ", "[", "o", "k", "]">>

\* the stub transport of end-to-end scenarios A and B
StubResponse ==
    Response(FALSE, 200, Body("msg_stub", TRUE, TRUE, <<TextBlock(FIXED_RESPONSE)>>))

Responses ==
    { Response(TRUE, 0, NoBody),
      Response(FALSE, 500, NoBody),
      Response(FALSE, 200, NoBody),
      Response(FALSE, 200, Body("msg_1", TRUE, FALSE, <<>>)),
      Response(FALSE, 200, Body("msg_1", TRUE, TRUE, <<>>)),
      Response(FALSE, 200, Body("msg_1", TRUE, TRUE, <<ToolBlock>>)),
      Response(FALSE, 200, Body("msg_1", TRUE, TRUE, <<TextBlock(<<>>)>>)),
      Response(FALSE, 200, Body("msg_2", TRUE, TRUE,
                                <<TextBlock(KURISU_REPLY), TextBlock(FIXED_RESPONSE)>>)),
      StubResponse }

\* a post that sends the request a second time when the first attempt raises
requests_post_retry(url, headers, json, resp) ==
    LET req == [url |-> url, headers |-> headers, json |-> json] IN
    [sent    |-> IF resp.raises THEN <<req, req>> ELSE <<req>>,
     outcome |-> IF resp.raises
                 THEN Raise("ConnectionError", "requests.post")
                 ELSE Return(Some(resp))]

\* requests.post(API_URL, headers=HEADERS, json=payload): one request goes out,
\* and the call returns the endpoint's answer or raises.
requests_post(url, headers, json, resp) ==
    [sent    |-> <<[url |-> url, headers |-> headers, json |-> json]>>,
     outcome |-> IF resp.raises
                 THEN Raise("ConnectionError", "requests.post")
                 ELSE Return(Some(resp))]

\* Response.raise_for_status(): HTTPError for a 4xx or 5xx status
raise_for_status(resp) ==
    IF 400 <= resp.status_code /\ resp.status_code < 600
    THEN Raise("HTTPError", "raise_for_status")
    ELSE Return(None)

----------------------------------------------------------------------------
\* class Amadeus

\* Amadeus.__init__
Amadeus_init ==
    [latest_request_api_url |-> None,
     latest_request_headers |-> None,
     latest_request_json    |-> None,
     latest_message_content |-> None,
     latest_response        |-> None]

\* the request fields assigned and the response fields of the call before cleared
record_request_reset(self, payload) ==
    [self EXCEPT !.latest_request_api_url = Some(API_URL),
                 !.latest_request_headers = Some(HEADERS),
                 !.latest_request_json = Some(payload),
                 !.latest_response = None,
                 !.latest_message_content = None]

\* the request fields assigned only while they are still None
record_request_once(self, payload) ==
    [self EXCEPT !.latest_request_api_url =
                     IF IsNone(@) THEN Some(API_URL) ELSE @,
                 !.latest_request_headers =
                     IF IsNone(@) THEN Some(HEADERS) ELSE @,
                 !.latest_request_json =
                     IF IsNone(@) THEN Some(payload) ELSE @]

\* the three assignments before the request is sent
record_request(self, payload) ==
    [self EXCEPT !.latest_request_api_url = Some(API_URL),
                 !.latest_request_headers = Some(HEADERS),
                 !.latest_request_json = Some(payload)]

\* Amadeus.test(text) on the instance `self`, with the persona file `f` and the
\* endpoint answering `resp`: the instance after the call, the requests sent
\* and the outcome. The fields are assigned in the order of the code, so a
\* failure keeps whatever was assigned before it.
Amadeus_test(self, text, f, resp) ==
    IF text = <<>>
    THEN [self |-> self, wire |-> <<>>,
          outcome |-> Violation("require", "Input text cannot be empty")]
    ELSE
    LET preprompt == scenarios_load_preprompt(f) IN
    IF preprompt.kind # "return"
    THEN [self |-> self, wire |-> <<>>, outcome |-> preprompt]
    ELSE
    LET payload == Payload(Val(preprompt.value), text)
        s1 == record_request(self, payload)
        posted == requests_post(API_URL, HEADERS, payload, resp)
    IN
    IF posted.outcome.kind # "return"
    THEN [self |-> s1, wire |-> posted.sent, outcome |-> posted.outcome]
    ELSE
    LET response == Val(posted.outcome.value)
        status == raise_for_status(response)
    IN
    IF status.kind # "return"
    THEN [self |-> s1, wire |-> posted.sent, outcome |-> status]
    ELSE
    LET s2 == [s1 EXCEPT !.latest_response = Some(response)]
        body == response.body
    IN
    IF ~body.valid_json
    THEN [self |-> s2, wire |-> posted.sent, outcome |-> Raise("JSONDecodeError", "response.json()")]
    ELSE IF ~body.has_content
    THEN [self |-> s2, wire |-> posted.sent, outcome |-> Raise("KeyError", "content")]
    ELSE IF body.content = <<>>
    THEN [self |-> s2, wire |-> posted.sent, outcome |-> Raise("IndexError", "content[0]")]
    ELSE IF ~body.content[1].has_text
    THEN [self |-> s2, wire |-> posted.sent, outcome |-> Raise("KeyError", "text")]
    ELSE
    LET s3 == [s2 EXCEPT !.latest_message_content = Some(body.content[1].text)] IN
    IF Val(s3.latest_message_content) = <<>>
    THEN [self |-> s3, wire |-> posted.sent,
          outcome |-> Violation("ensure", "Response cannot be empty")]
    ELSE [self |-> s3, wire |-> posted.sent, outcome |-> Return(s3.latest_message_content)]

\* the two require contracts of raise_for_some_elements_not_returned
require_message_content(self) == ~IsNone(self.latest_message_content)

\* the second contract with >= in place of >
require_expected_elements_weak(expected_elements) == Len(expected_elements) >= 0

require_expected_elements(expected_elements) == Len(expected_elements) > 0

\* Amadeus.raise_for_some_elements_not_returned(expected_elements) on `self`.
\* The contracts are taken in decorator order; when both are violated the
\* outcome is a ViolationError of a require whichever is reported. The
\* ValueError of the body is kept although the first contract shadows it.
Amadeus_raise_for_some_elements_not_returned(self, expected_elements) ==
    IF ~require_message_content(self)
    THEN Violation("require", "No message content available. Run test() first.")
    ELSE IF ~require_expected_elements(expected_elements)
    THEN Violation("require", "Expected elements list cannot be empty")
    ELSE IF IsNone(self.latest_message_content)
    THEN Raise("ValueError", "No message content available. Run test() first.")
    ELSE
    LET missing == missing_elements(expected_elements, Val(self.latest_message_content)) IN
    IF missing = <<>> THEN Return(None) ELSE AssertionError(missing)

----------------------------------------------------------------------------
\* class DummyAmadeus

\* DummyAmadeus.__init__
DummyAmadeus_init ==
    [latest_request_api_url |-> None,
     latest_message_content |-> Some(FIXED_RESPONSE)]

\* DummyAmadeus.test(text): no contract on text, no persona, no network
DummyAmadeus_test(self, text) == Return(Some(FIXED_RESPONSE))

\* DummyAmadeus.raise_for_some_elements_not_returned(expected_elements)
DummyAmadeus_raise_for_some_elements_not_returned(self, expected_elements) ==
    IF IsNone(self.latest_message_content)
    THEN Violation("require", "Message content must be available")
    ELSE IF ~(Len(expected_elements) > 0)
    THEN Violation("require", "Expected elements list cannot be empty")
    ELSE
    LET missing == missing_elements(expected_elements, Val(self.latest_message_content)) IN
    IF missing = <<>> THEN Return(None) ELSE AssertionError(missing)

----------------------------------------------------------------------------
\* Inputs

\* texts handed to test(): the empty string and two messages
Texts == { <<>>, <<"h", "i">>, <<"y", "o">> }

\* contents of docs/latest_preprompt.md: empty, "Kurisu" (6 characters),
\* "Kurisu, 18" (10 characters) and "Christina!" (10 characters, no marker)
PersonaContents ==
    { <<>>,
      KURISU,
      KURISU \o <<",", " ", "1", "8">>,
      <<"C", "h", "r", "i", "s", "t", "i", "n", "a", "!">> }

\* elements of expected_elements: "Does" and "does"
Elements ==
    { <<"D", "o", "e", "s">>, <<"d", "o", "e", "s">> }

ExpectedLists == UNION { [1..n -> Elements] : n \in 0..MaxExpected }

----------------------------------------------------------------------------
\* The record of a call; NoCall when the last step was not a call on that client

Call(op, arg, resp, outcome) == [op |-> op, arg |-> arg, resp |-> resp, outcome |-> outcome]

NoResponse == Response(FALSE, 0, NoBody)

NoCall == Call("none", <<>>, NoResponse, NoOutcome)

----------------------------------------------------------------------------
\* Initial state: a file system in any state, two freshly constructed clients

Init ==
    /\ file \in {None} \cup { Some(c) : c \in PersonaContents }
    /\ amadeus = Amadeus_init
    /\ dummy = DummyAmadeus_init
    /\ wire = <<>>
    /\ result = NoCall
    /\ dummy_result = NoCall
    /\ test_returned = FALSE

----------------------------------------------------------------------------
\* The environment: the persona file is written or removed between calls

WriteFile(content) ==
    /\ file # Some(content)
    /\ file' = Some(content)
    /\ wire' = <<>>
    /\ result' = NoCall
    /\ dummy_result' = NoCall
    /\ UNCHANGED <<amadeus, dummy, test_returned>>

RemoveFile ==
    /\ file # None
    /\ file' = None
    /\ wire' = <<>>
    /\ result' = NoCall
    /\ dummy_result' = NoCall
    /\ UNCHANGED <<amadeus, dummy, test_returned>>

----------------------------------------------------------------------------
\* Calls. Each call is synchronous and runs to its return or its exception.

\* a caller calls fractal_amadeus.core.load_preprompt()
LoadPreprompt ==
    /\ result' = Call("load_preprompt", <<>>, NoResponse, load_preprompt(file))
    /\ wire' = <<>>
    /\ dummy_result' = NoCall
    /\ UNCHANGED <<file, amadeus, dummy, test_returned>>

\* a caller calls load_preprompt() of test_basic_usage_scenarios.py
ScenariosLoadPreprompt ==
    /\ result' = Call("scenarios_load_preprompt", <<>>, NoResponse, scenarios_load_preprompt(file))
    /\ wire' = <<>>
    /\ dummy_result' = NoCall
    /\ UNCHANGED <<file, amadeus, dummy, test_returned>>

\* amadeus.test(text), the endpoint answering resp
AmadeusTestCall(text, resp) ==
    LET r == Amadeus_test(amadeus, text, file, resp) IN
    /\ amadeus' = r.self
    /\ wire' = r.wire
    /\ result' = Call("test", text, resp, r.outcome)
    /\ test_returned' = (test_returned \/ r.outcome.kind = "return")

\* a check that consumes the stored text
AmadeusCheckCallConsuming(expected_elements) ==
    /\ result' = Call("raise_for_some_elements_not_returned", expected_elements, NoResponse,
                      Amadeus_raise_for_some_elements_not_returned(amadeus, expected_elements))
    /\ wire' = <<>>
    /\ amadeus' = [amadeus EXCEPT !.latest_message_content = None]
    /\ UNCHANGED test_returned

\* amadeus.raise_for_some_elements_not_returned(expected_elements)
AmadeusCheckCall(expected_elements) ==
    /\ result' = Call("raise_for_some_elements_not_returned", expected_elements, NoResponse,
                      Amadeus_raise_for_some_elements_not_returned(amadeus, expected_elements))
    /\ wire' = <<>>
    /\ UNCHANGED <<amadeus, test_returned>>

\* dummy.test(text)
DummyTestCall(text) ==
    /\ dummy_result' = Call("test", text, NoResponse, DummyAmadeus_test(dummy, text))
    /\ UNCHANGED dummy

\* dummy.raise_for_some_elements_not_returned(expected_elements)
DummyCheckCall(expected_elements) ==
    /\ dummy_result' = Call("raise_for_some_elements_not_returned", expected_elements, NoResponse,
                            DummyAmadeus_raise_for_some_elements_not_returned(dummy, expected_elements))
    /\ UNCHANGED dummy

AmadeusTest(text, resp) ==
    /\ AmadeusTestCall(text, resp)
    /\ dummy_result' = NoCall
    /\ UNCHANGED <<file, dummy>>

AmadeusCheck(expected_elements) ==
    /\ AmadeusCheckCall(expected_elements)
    /\ dummy_result' = NoCall
    /\ UNCHANGED <<file, dummy>>

DummyTest(text) ==
    /\ DummyTestCall(text)
    /\ result' = NoCall
    /\ wire' = <<>>
    /\ UNCHANGED <<file, amadeus, test_returned>>

DummyCheck(expected_elements) ==
    /\ DummyCheckCall(expected_elements)
    /\ result' = NoCall
    /\ wire' = <<>>
    /\ UNCHANGED <<file, amadeus, test_returned>>

Next ==
    \/ \E content \in PersonaContents : WriteFile(content)
    \/ RemoveFile
    \/ LoadPreprompt
    \/ ScenariosLoadPreprompt
    \/ \E text \in Texts, resp \in Responses : AmadeusTest(text, resp)
    \/ \E expected_elements \in ExpectedLists : AmadeusCheck(expected_elements)
    \/ \E text \in Texts : DummyTest(text)
    \/ \E expected_elements \in ExpectedLists : DummyCheck(expected_elements)

Spec == Init /\ [][Next]_vars

----------------------------------------------------------------------------
\* The same sequence of calls made on both clients, the real one behind the
\* stub transport

BothTest(text) ==
    /\ AmadeusTestCall(text, StubResponse)
    /\ DummyTestCall(text)
    /\ UNCHANGED file

BothCheck(expected_elements) ==
    /\ AmadeusCheckCall(expected_elements)
    /\ DummyCheckCall(expected_elements)
    /\ UNCHANGED file

NextStub ==
    \/ \E content \in PersonaContents : WriteFile(content)
    \/ RemoveFile
    \/ \E text \in Texts : BothTest(text)
    \/ \E expected_elements \in ExpectedLists : BothCheck(expected_elements)

SpecStub == Init /\ [][NextStub]_vars

----------------------------------------------------------------------------
\* Vocabulary of the claims

CheckOp == "raise_for_some_elements_not_returned"

IsSuccess(o) == o.kind = "return"

\* a requests exception: the call raised, or raise_for_status rejected the status
IsTransportError(o) == o.kind \in {"ConnectionError", "HTTPError"}

IsPreconditionError(o) == o.kind = "ViolationError" /\ o.contract = "require"

IsValidationError(o) == o.kind = "AssertionError"

IsNotFound(o) == o.kind = "FileNotFoundError"

\* elem occurs in text at some offset, character by character
OccursIn(elem, text) ==
    \E off \in 0..Len(text) :
        /\ off + Len(elem) <= Len(text)
        /\ \A j \in 1..Len(elem) : text[off + j] = elem[j]

\* the positions of expected whose element does not occur in text
AbsentPositions(expected, text) ==
    { i \in 1..Len(expected) : ~OccursIn(expected[i], text) }

\* listed is exactly the elements of expected at the positions in pos, in
\* increasing order of position
ListsPositions(listed, expected, pos) ==
    /\ Len(listed) = Cardinality(pos)
    /\ \E f \in [1..Len(listed) -> pos] :
          /\ \A j, k \in 1..Len(listed) : j < k => f[j] < f[k]
          /\ \A k \in 1..Len(listed) : listed[k] = expected[f[k]]

\* the persona bounds of the specification
PersonaInBounds(p) == 10 <= Len(p) /\ Len(p) <= 100000 /\ OccursIn(KURISU, p)

----------------------------------------------------------------------------
\* C1: if test() fails with a TransportError, every field of the client has
\* the value it had immediately before the call.
C1_TransportErrorLeavesStateUntouched ==
    [][(result'.op = "test" /\ IsTransportError(result'.outcome)) => amadeus' = amadeus]_vars

\* C2: on a real client on which no test() has yet returned, the check of a
\* non-empty expected list fails with the precondition error "No message
\* content available" and evaluates no containment.
C2_NoContentBeforeSuccessfulSend ==
    (result.op = CheckOp /\ Len(result.arg) > 0 /\ ~test_returned)
        => /\ IsPreconditionError(result.outcome)
           /\ result.outcome.msg = "No message content available. Run test() first."

\* C3: with a stored text and a non-empty expected list, the check returns
\* exactly when every element occurs in the text; otherwise it fails with the
\* assertion error that lists exactly the absent elements, in their order in
\* expected, duplicates kept. Stated for the real client and for DummyAmadeus.
C3_Checked(call, self) ==
    (call.op = CheckOp /\ Len(call.arg) > 0 /\ ~IsNone(self.latest_message_content))
        => LET absent == AbsentPositions(call.arg, Val(self.latest_message_content)) IN
           /\ IsSuccess(call.outcome) <=> absent = {}
           /\ absent # {} => /\ IsValidationError(call.outcome)
                             /\ ListsPositions(call.outcome.value, call.arg, absent)

C3_MissingListExact == C3_Checked(result, amadeus) /\ C3_Checked(dummy_result, dummy)

\* a check of a two-element list, one element present and one absent, has
\* failed against the text a successful test() stored
C3_Witness ==
    /\ result.op = CheckOp
    /\ Len(result.arg) = 2
    /\ test_returned
    /\ IsValidationError(result.outcome)
    /\ Len(result.outcome.value) = 1

\* C4: the check of an empty expected list fails with a precondition error in
\* every state, on the real client and on DummyAmadeus.
C4_EmptyExpectedRejected ==
    /\ (result.op = CheckOp /\ Len(result.arg) = 0) => IsPreconditionError(result.outcome)
    /\ (dummy_result.op = CheckOp /\ Len(dummy_result.arg) = 0)
           => IsPreconditionError(dummy_result.outcome)

\* the empty list has been checked on a client that holds a non-empty text
C4_Witness ==
    /\ result.op = CheckOp
    /\ Len(result.arg) = 0
    /\ ~IsNone(amadeus.latest_message_content)
    /\ Len(Val(amadeus.latest_message_content)) > 0

\* C5: right after a test(text) that returned, the five fields are those of
\* this call: the single user message is persona, two newlines, text; the
\* response is the one this call received; the stored text is the text of its
\* first content block and is the value returned.
C5_SuccessOverwritesAllFields ==
    (result.op = "test" /\ IsSuccess(result.outcome))
        => /\ amadeus.latest_request_api_url = Some(API_URL)
           /\ amadeus.latest_request_headers = Some(HEADERS)
           /\ ~IsNone(amadeus.latest_request_json)
           /\ Len(Val(amadeus.latest_request_json).messages) = 1
           /\ Val(amadeus.latest_request_json).messages[1].role = "user"
           /\ Val(amadeus.latest_request_json).messages[1].content
                  = Val(file) \o <<"\n", "\n">> \o result.arg
           /\ amadeus.latest_response = Some(result.resp)
           /\ amadeus.latest_message_content = Some(result.resp.body.content[1].text)
           /\ result.outcome.value = amadeus.latest_message_content

\* a test() has returned on a two-block response and the stored text is that
\* of the first block
C5_Witness ==
    /\ result.op = "test"
    /\ IsSuccess(result.outcome)
    /\ Len(result.resp.body.content) = 2
    /\ Val(amadeus.latest_message_content) = KURISU_REPLY

\* the persona file is one the loader that test() uses accepts
PersonaLoads == ~IsNone(file) /\ Len(Val(file)) > 0 /\ OccursIn(KURISU, Val(file))

\* C6: a test() whose text is non-empty and whose persona load succeeds puts
\* exactly one request on the network, carrying this call's body, whether the
\* call succeeds or fails; a failed network call is not retried and reaches
\* the caller as a transport error.
C6_ExactlyOneNetworkCall ==
    (result.op = "test" /\ Len(result.arg) > 0 /\ PersonaLoads)
        => /\ Len(wire) = 1
           /\ wire[1].url = API_URL
           /\ wire[1].json.messages[1].content = Val(file) \o <<"\n", "\n">> \o result.arg
           /\ (result.resp.raises \/ result.resp.status_code >= 400)
                  => IsTransportError(result.outcome)

\* a test() whose network call raised has reached the caller
C6_Witness ==
    /\ result.op = "test"
    /\ result.resp.raises
    /\ IsTransportError(result.outcome)
    /\ Len(wire) = 1

\* C7: every successful persona load, called directly or performed by test(),
\* yields a text of 10 to 100,000 characters that contains "Kurisu"; no
\* request goes out whose persona part violates this.
C7_PersonaAlwaysInBounds ==
    /\ (result.op \in {"load_preprompt", "scenarios_load_preprompt"} /\ IsSuccess(result.outcome))
           => PersonaInBounds(Val(result.outcome.value))
    /\ (result.op = "test" /\ wire # <<>>) => PersonaInBounds(Val(file))

\* C8: with the persona file missing, load_preprompt and a test() that reaches
\* the load fail with a NotFound error raised to the caller, return no
\* content, and the test() sends nothing and changes no field of the client.
C8_MissingFileIsNotFound ==
    [][(/\ IsNone(file')
        /\ \/ result'.op = "load_preprompt"
           \/ (result'.op = "test" /\ Len(result'.arg) > 0))
          => /\ IsNotFound(result'.outcome)
             /\ result'.outcome.value = <<>>
             /\ wire' = <<>>
             /\ amadeus' = amadeus]_vars

\* C9: the check changes no field of the client, whatever its outcome, on the
\* real client and on DummyAmadeus; two checks in a row with the same expected
\* list have the same outcome.
C9_CheckIsReadOnly ==
    [][/\ result'.op = CheckOp => amadeus' = amadeus
       /\ dummy_result'.op = CheckOp => dummy' = dummy
       /\ (result.op = CheckOp /\ result'.op = CheckOp /\ result'.arg = result.arg)
              => result'.outcome = result.outcome
       /\ (dummy_result.op = CheckOp /\ dummy_result'.op = CheckOp
               /\ dummy_result'.arg = dummy_result.arg)
              => dummy_result'.outcome = dummy_result.outcome]_vars

\* a check has failed with missing elements against a stored text
C9_Witness ==
    /\ result.op = CheckOp
    /\ IsValidationError(result.outcome)
    /\ ~IsNone(amadeus.latest_message_content)
    /\ ~IsNone(amadeus.latest_response)

\* same returned value, same success, or the same kind of error with the same
\* missing list
SameOutcome(a, b) == a.kind = b.kind /\ a.contract = b.contract /\ a.value = b.value

\* C10: behind the stub transport the real client and DummyAmadeus give every
\* call of a common sequence of calls the same outcome.
C10_DummyEquivalentToStubbedReal ==
    (result.op = dummy_result.op /\ result.op # "none")
        => SameOutcome(result.outcome, dummy_result.outcome)

\* the names of the five fields of the client
ClientFields ==
    {"latest_request_api_url", "latest_request_headers", "latest_request_json",
     "latest_response", "latest_message_content"}

\* the request fields are all None or all set; a stored text implies a stored
\* response, which implies a stored request
FieldsOrdered(self) ==
    /\ IsNone(self.latest_request_api_url) = IsNone(self.latest_request_headers)
    /\ IsNone(self.latest_request_headers) = IsNone(self.latest_request_json)
    /\ ~IsNone(self.latest_message_content) => ~IsNone(self.latest_response)
    /\ ~IsNone(self.latest_response) => ~IsNone(self.latest_request_json)

\* C11: in every state of the real client the request fields are all None or
\* all set, a stored text implies a stored response and a stored response
\* implies stored request fields; and no step turns a set field back to None.
C11_FieldsSetInOrderAndKept ==
    [][/\ FieldsOrdered(amadeus)
       /\ FieldsOrdered(amadeus')
       /\ \A f \in ClientFields : ~IsNone(amadeus[f]) => ~IsNone(amadeus'[f])]_vars

\* a test() has failed while parsing the body on a client that already held a
\* text: request, response and text are all set, and the text is an older one
C11_Witness ==
    /\ result.op = "test"
    /\ result.outcome.kind = "IndexError"
    /\ ~IsNone(amadeus.latest_request_json)
    /\ amadeus.latest_response = Some(result.resp)
    /\ ~IsNone(amadeus.latest_message_content)

\* C12: whenever latest_response is set, latest_message_content is the text of
\* the first content block of that same response, also after a test() that
\* failed while parsing the body or failed its non-empty postcondition.
C12_ResponseAndTextFromSameCall ==
    ~IsNone(amadeus.latest_response)
        => LET body == Val(amadeus.latest_response).body IN
           /\ body.valid_json
           /\ body.has_content
           /\ Len(body.content) > 0
           /\ body.content[1].has_text
           /\ amadeus.latest_message_content = Some(body.content[1].text)

====
